---- MODULE Spec2Model ----
(***************************************************************************)
(* Model of the tree-search reasoning pipeline of the reasoning service:   *)
(* the MCTS node store and its pure functions (src/reasoning/mcts.py), the *)
(* graph nodes that drive one session (src/reasoning/nodes.py) and the     *)
(* edges between them (src/reasoning/graph.py).                            *)
(*                                                                         *)
(* Real numbers are fixed-point integers: the real 1.0 is the integer One. *)
(* Every score the pipeline produces is a multiple of 0.01 and the decay   *)
(* 0.95 = 19/20 is applied at most four times on the trees explored here,  *)
(* so with One = 100 * 20^4 all cumulative values are exact.               *)
(***************************************************************************)
EXTENDS Integers, Sequences, FiniteSets, TLC

\* ------------------------------------------------------------------ bounds
MaxBudget == 2
MaxNodes == 4
MaxTexts == 2
FnMaxNodes == 4
BranchMaxDepth == 5
BranchMaxKids == 3
TextMaxLen == 5
MaxClock == 11
MaxPeriod == 6

\* --------------------------------------------------------------- numerics
One == 100 * (20 * 20 * 20 * 20)
Inf == 2000000000
Pct(n) == n * (One \div 100)

GammaNum == 19
GammaDen == 20

None == 0

\* floor(One * 1.41 * sqrt(ln(p) / n)) for parent visits p and child visits
\* n in 1..12: the exploration term of uct_score with exploration_weight 1.41
ExploreTab ==
  << <<0, 0, 0, 0, 0, 0, 0, 0, 0, 0, 0, 0>>,
     <<18782432, 13281185, 10844042, 9391216, 8399758, 7667895, 7099092, 6640592, 6260810, 5939526, 5663116, 5422021>>,
     <<23646197, 16720386, 13652138, 11823098, 10574901, 9653519, 8937422, 8360193, 7882065, 7477584, 7129596, 6826069>>,
     <<26562370, 18782432, 15335791, 13281185, 11879053, 10844042, 10039632, 9391216, 8854123, 8399758, 8008855, 7667895>>,
     <<28620433, 20237702, 16524015, 14310216, 12799447, 11684243, 10817507, 10118851, 9540144, 9050575, 8629385, 8262007>>,
     <<30198053, 21353248, 17434854, 15099026, 13504980, 12328303, 11413791, 10676624, 10066017, 9549462, 9105055, 8717427>>,
     <<31470271, 22252842, 18169369, 15735135, 14073933, 12847684, 11894644, 11126421, 10490090, 9951773, 9488643, 9084684>>,
     <<32532126, 23003687, 18782432, 16266063, 14548809, 13281185, 12295988, 11501843, 10844042, 10287561, 9808805, 9391216>>,
     <<33440773, 23646197, 19307039, 16720386, 14955168, 13652138, 12639424, 11823098, 11146924, 10574901, 10082772, 9653519>>,
     <<34233156, 24206496, 19764521, 17116578, 15309532, 13975627, 12938916, 12103248, 11411052, 10825474, 10321684, 9882260>>,
     <<34934473, 24702403, 20169427, 17467236, 15623171, 14261939, 13203989, 12351201, 11644824, 11047250, 10533140, 10084713>>,
     <<35562651, 25146592, 20532106, 17781325, 15904101, 14518391, 13441418, 12573296, 11854217, 11245897, 10722542, 10266053>> >>

\* ------------------------------------------------------------------ state
VARIABLES
  pc,                    \* the graph node about to run
  tree_state,            \* id -> MCTSNode
  root_id,
  selected_node_id,
  search_budget,
  pending_search_query,  \* None, or the id of the node whose directive carries the query
  current_children_ids,
  reflected_ids,
  evaluated_ids,
  best_terminal_id,
  initial_plan,
  final_answer,          \* what mcts_finalize_node returned
  hist,                  \* observations of the run, read by the properties only
  fn                     \* the last direct call of a pure function (function specification)

vars == << pc, tree_state, root_id, selected_node_id, search_budget,
           pending_search_query, current_children_ids, reflected_ids,
           evaluated_ids, best_terminal_id, initial_plan, final_answer, hist, fn >>

\* ------------------------------------------------------------- mcts.py
Ids(tree_nodes) == DOMAIN tree_nodes

MCTSNode(content, role, parent_id) ==
  [ content |-> content, role |-> role, parent_id |-> parent_id,
    children_ids |-> << >>, visits |-> 0, value |-> 0,
    is_terminal |-> FALSE, reflection |-> "none", search_results |-> "none",
    external_score |-> 0, reflection_score |-> 0 ]

q_value(node) == IF node.visits = 0 THEN 0 ELSE node.value \div node.visits

\* math.log(parent_visits) raises ValueError for parent_visits = 0
uct_raises(node, parent_visits) == node.visits # 0 /\ parent_visits <= 0

\* mutant: an unvisited node scores 0 instead of infinity
uct_score_unvisited_zero(node, parent_visits) ==
  IF node.visits = 0 THEN 0
  ELSE q_value(node) + ExploreTab[parent_visits][node.visits]

\* mutant: the exploitation term is the critique score of the node, not its
\* cumulative value per visit
uct_score_by_reflection(node, parent_visits) ==
  IF node.visits = 0 THEN Inf
  ELSE node.reflection_score + ExploreTab[parent_visits][node.visits]

uct_score(node, parent_visits) ==
  IF node.visits = 0 THEN Inf
  ELSE q_value(node) + ExploreTab[parent_visits][node.visits]

RECURSIVE best_child_from(_, _, _, _, _)
best_child_from(tree_nodes, current_node, i, best_score, best_child_id) ==
  IF i > Len(current_node.children_ids) THEN best_child_id
  ELSE LET child_id == current_node.children_ids[i]
           score == uct_score(tree_nodes[child_id], current_node.visits)
       IN IF score > best_score
          THEN best_child_from(tree_nodes, current_node, i + 1, score, child_id)
          ELSE best_child_from(tree_nodes, current_node, i + 1, best_score, best_child_id)

best_child(tree_nodes, current_node) ==
  best_child_from(tree_nodes, current_node, 1, -Inf, None)

RECURSIVE descend(_, _, _)
descend(tree_nodes, current_id, path) ==
  LET current_node == tree_nodes[current_id] IN
  IF current_node.children_ids = << >>
  THEN [raised |-> FALSE, leaf |-> current_id, path |-> path]
  ELSE IF \E i \in 1..Len(current_node.children_ids) :
            uct_raises(tree_nodes[current_node.children_ids[i]], current_node.visits)
  THEN [raised |-> TRUE, leaf |-> None, path |-> path]
  ELSE LET b == best_child(tree_nodes, current_node)
       IN descend(tree_nodes, b, Append(path, b))

\* mutant: no descent, the root is returned whatever its children
select_leaf_root(tree_nodes, root) == [raised |-> FALSE, leaf |-> root, path |-> << root >>]

select_leaf(tree_nodes, root) == descend(tree_nodes, root, << root >>)

decay(current_value) == (current_value * GammaNum) \div GammaDen

RECURSIVE bp_walk(_, _, _)
bp_walk(tree_nodes, current_id, current_value) ==
  IF current_id = None THEN tree_nodes
  ELSE bp_walk([tree_nodes EXCEPT ![current_id].visits = @ + 1,
                                  ![current_id].value = @ + current_value],
               tree_nodes[current_id].parent_id,
               decay(current_value))

\* mutant: the value reaches every ancestor undecayed (gamma = 1)
RECURSIVE bp_walk_undecayed(_, _, _)
bp_walk_undecayed(tree_nodes, current_id, current_value) ==
  IF current_id = None THEN tree_nodes
  ELSE bp_walk_undecayed([tree_nodes EXCEPT ![current_id].visits = @ + 1,
                                            ![current_id].value = @ + current_value],
                         tree_nodes[current_id].parent_id,
                         current_value)

backpropagate_undecayed(tree_nodes, node_id, value) ==
  bp_walk_undecayed(tree_nodes, node_id, value)

\* mutant: the value is decayed before it is added (the start node gets
\* 0.95 v)
RECURSIVE bp_walk_decay_first(_, _, _)
bp_walk_decay_first(tree_nodes, current_id, current_value) ==
  IF current_id = None THEN tree_nodes
  ELSE bp_walk_decay_first([tree_nodes EXCEPT ![current_id].visits = @ + 1,
                                              ![current_id].value = @ + decay(current_value)],
                           tree_nodes[current_id].parent_id,
                           decay(current_value))

backpropagate_decay_first(tree_nodes, node_id, value) ==
  bp_walk_decay_first(tree_nodes, node_id, value)

\* mutant: the walk stops after the node itself, no ancestor is updated
backpropagate_node_only(tree_nodes, node_id, value) ==
  [tree_nodes EXCEPT ![node_id].visits = @ + 1, ![node_id].value = @ + value]

backpropagate(tree_nodes, node_id, value) == bp_walk(tree_nodes, node_id, value)

RECURSIVE get_depth(_, _)
get_depth(tree_nodes, node_id) ==
  IF node_id = None \/ node_id \notin Ids(tree_nodes) THEN 0
  ELSE 1 + get_depth(tree_nodes, tree_nodes[node_id].parent_id)

RECURSIVE SeqSum(_)
SeqSum(s) == IF s = << >> THEN 0 ELSE Head(s) + SeqSum(Tail(s))

\* statistics.variance(child_scores) > 0.3, the sample variance, computed on
\* the child values rounded down to 0.01:
\*   (n * sum(x^2) - sum(x)^2) / (n * (n - 1)) > 0.3
\* mutant: the population variance (divided by n) instead of the sample one
high_population_variance(child_scores) ==
  LET n == Len(child_scores)
      c == [i \in 1..n |-> child_scores[i] \div (One \div 100)]
      sq == [i \in 1..n |-> c[i] * c[i]]
  IN 10 * (n * SeqSum(sq) - SeqSum(c) * SeqSum(c)) > 3 * n * n * 10000

high_variance(child_scores) ==
  LET n == Len(child_scores)
      c == [i \in 1..n |-> child_scores[i] \div (One \div 100)]
      sq == [i \in 1..n |-> c[i] * c[i]]
  IN 10 * (n * SeqSum(sq) - SeqSum(c) * SeqSum(c)) > 3 * n * (n - 1) * 10000

get_adaptive_branching_factor(tree_nodes, node_id) ==
  LET node == tree_nodes[node_id]
      child_scores == [i \in 1..Len(node.children_ids) |-> tree_nodes[node.children_ids[i]].value]
  IN IF Len(node.children_ids) > 1 /\ high_variance(child_scores) THEN 5
     ELSE IF get_depth(tree_nodes, node_id) > 3 THEN 2
     ELSE 3

\* ------------------------------------------------- collaborators' answers
\* What one Generator call (llm.chat) can produce: an exception ("fail"),
\* empty text, a reasoning step whose text after the think block
\* is shorter than 10 characters ("brief"), a longer reasoning step
\* ("thought"), a step with a <search>..</search> directive ("search"), a
\* step with an answer marker that is_terminal_answer accepts ("answer").
GenOutcomes == {"fail", "empty", "brief", "thought", "search", "answer"}
\* What perform_web_search returns: the formatted findings, or the text "No
\* search results found." when the provider returned nothing
RetrievalTexts == {"found", "No search results found."}
\* ... or, when the third attempt failed as well, the exception it re-raises
RetrievalOutcomes == RetrievalTexts \cup {"raise"}
ReflectOutcomes == {"HIGH", "MEDIUM", "other", "exception"}
\* the verification reply: a number (in 0.01 units), or Unparsable text
Unparsable == -1
ExternalOutcomes == {0, 100, Unparsable}

is_text(r) == r \notin {"fail", "empty"}
parse_search_request(content) == content.kind = "search"
is_terminal_answer(content) == content.kind = "answer"
\* parse_reasoning_response(content)[1] has fewer than 10 characters
answer_too_short(content) == content.kind = "brief"

\* ------------------------------------------------------------- nodes.py
\* create_initial_state, for a session whose budget is one of `budgets`
initial_state(budgets) ==
  /\ pc = "plan"
  /\ tree_state = << >>
  /\ root_id = None
  /\ selected_node_id = None
  /\ search_budget \in budgets
  /\ pending_search_query = None
  /\ current_children_ids = << >>
  /\ reflected_ids = << >>
  /\ evaluated_ids = << >>
  /\ best_terminal_id = None
  /\ initial_plan = "none"
  /\ final_answer = [complete |-> FALSE, leaf |-> None]
  /\ hist = [budget0 |-> search_budget, cycles |-> 0, detours |-> 0, last_detours |-> 0,
             early_exit |-> FALSE, exit_cycle |-> 0, cond_cycle |-> 0,
             all_040 |-> TRUE, retrieval_raised |-> FALSE,
             all_failed |-> FALSE]
  /\ fn = [op |-> "none"]

Init == initial_state(0..MaxBudget)

plan_node ==
  /\ pc = "plan"
  /\ \E text \in {"plan", "Failed to generate plan"} : initial_plan' = text
  /\ pc' = "init_tree"
  /\ UNCHANGED << tree_state, root_id, selected_node_id, search_budget,
                  pending_search_query, current_children_ids, reflected_ids,
                  evaluated_ids, best_terminal_id, final_answer, hist, fn >>

initialize_tree_node ==
  /\ pc = "init_tree"
  /\ IF root_id # None
     THEN UNCHANGED << tree_state, root_id >>
     ELSE /\ tree_state' = << MCTSNode([kind |-> "root", findings |-> << >>], "user", None) >>
          /\ root_id' = 1
  /\ pc' = "mcts_select"
  /\ UNCHANGED << selected_node_id, search_budget, pending_search_query,
                  current_children_ids, reflected_ids, evaluated_ids,
                  best_terminal_id, initial_plan, final_answer, hist, fn >>

mcts_select_node ==
  /\ pc = "mcts_select"
  /\ IF search_budget <= 0
     THEN /\ pc' = "mcts_expand"
          /\ UNCHANGED selected_node_id
     ELSE LET r == select_leaf(tree_state, root_id) IN
          IF r.raised
          THEN /\ pc' = "crashed"
               /\ UNCHANGED selected_node_id
          ELSE /\ pc' = "mcts_expand"
               /\ selected_node_id' = r.leaf
  /\ UNCHANGED << tree_state, root_id, search_budget, pending_search_query,
                  current_children_ids, reflected_ids, evaluated_ids,
                  best_terminal_id, initial_plan, final_answer, hist, fn >>

\* the text stored for a candidate: a directive's text is cut at the closing
\* marker, the other texts are stored as generated
candidate_content(r) == [kind |-> r, findings |-> << >>]

new_child(r, selected_id) ==
  [ MCTSNode(candidate_content(r), "assistant", selected_id)
      EXCEPT !.is_terminal = is_terminal_answer(candidate_content(r)) ]

\* mutant: the children are stored but not appended to the selected node's
\* child list
expand_tree_unlinked(tree_nodes, selected_id, results) ==
  LET texts == SelectSeq(results, is_text)
      n == Len(tree_nodes)
  IN [ tree |-> [i \in 1..(n + Len(texts)) |->
                   IF i > n THEN new_child(texts[i - n], selected_id)
                   ELSE tree_nodes[i]],
       new_children_ids |-> [j \in 1..Len(texts) |-> n + j] ]

\* mutant: gather without return_exceptions, one failed call aborts the step
expand_tree_abort_on_failure(tree_nodes, selected_id, results) ==
  LET texts == IF \E i \in 1..Len(results) : results[i] = "fail"
               THEN << >> ELSE SelectSeq(results, is_text)
      n == Len(tree_nodes)
      new_children_ids == [j \in 1..Len(texts) |-> n + j]
  IN [ tree |-> [i \in 1..(n + Len(texts)) |->
                   IF i > n THEN new_child(texts[i - n], selected_id)
                   ELSE IF i = selected_id
                        THEN [tree_nodes[i] EXCEPT !.children_ids = @ \o new_children_ids]
                        ELSE tree_nodes[i]],
       new_children_ids |-> new_children_ids ]

\* the loop over the gathered results: one child per non-empty result, in
\* generation order, appended to the selected node's children
expand_tree(tree_nodes, selected_id, results) ==
  LET texts == SelectSeq(results, is_text)
      n == Len(tree_nodes)
      new_children_ids == [j \in 1..Len(texts) |-> n + j]
  IN [ tree |-> [i \in 1..(n + Len(texts)) |->
                   IF i > n THEN new_child(texts[i - n], selected_id)
                   ELSE IF i = selected_id
                        THEN [tree_nodes[i] EXCEPT !.children_ids = @ \o new_children_ids]
                        ELSE tree_nodes[i]],
       new_children_ids |-> new_children_ids ]

\* next(cid for cid in new_children_ids if parse_search_request(content))
first_search_child(tree_nodes, new_children_ids) ==
  LET req == {j \in 1..Len(new_children_ids) :
                 parse_search_request(tree_nodes[new_children_ids[j]].content)}
  IN IF req = {} THEN None
     ELSE new_children_ids[CHOOSE j \in req : \A k \in req : j <= k]

\* mutant: the router ignores the pending request
route_mcts_expand_to_reflect(pending) == "mcts_reflect"

route_mcts_expand(pending) == IF pending # None THEN "tool_node" ELSE "mcts_reflect"

\* what mcts_expand_node does with the gathered results, one per call and in
\* the order of the calls
process_results(results) ==
  LET e == expand_tree(tree_state, selected_node_id, results)
      s == first_search_child(e.tree, e.new_children_ids)
  IN IF e.new_children_ids = << >>
     THEN /\ pc' = route_mcts_expand(pending_search_query)
          /\ hist' = [hist EXCEPT !.all_failed = (hist.detours = 0)]
          /\ UNCHANGED << tree_state, selected_node_id,
                          pending_search_query, current_children_ids >>
     ELSE /\ tree_state' = e.tree
          /\ UNCHANGED hist
          /\ current_children_ids' = e.new_children_ids
          /\ IF s # None
             THEN /\ pending_search_query' = s
                  /\ selected_node_id' = s
             ELSE UNCHANGED << pending_search_query, selected_node_id >>
          /\ pc' = route_mcts_expand(pending_search_query')

mcts_expand_node ==
  /\ pc = "mcts_expand"
  /\ fn.op = "none"
  /\ IF selected_node_id \notin Ids(tree_state)
     THEN \* tree_nodes[selected_id] raises KeyError
          /\ pc' = "crashed"
          /\ UNCHANGED << tree_state, selected_node_id, pending_search_query,
                          current_children_ids, hist >>
     ELSE \E results \in [1..get_adaptive_branching_factor(tree_state, selected_node_id) -> GenOutcomes] :
          \* the bounds: at most MaxTexts calls succeed, at most MaxNodes nodes
          /\ Len(SelectSeq(results, is_text)) <= MaxTexts
          /\ Len(tree_state) + Len(SelectSeq(results, is_text)) <= MaxNodes
          /\ process_results(results)
  /\ UNCHANGED << root_id, search_budget, reflected_ids, evaluated_ids,
                  best_terminal_id, initial_plan, final_answer, fn >>

\* mutant: the findings are written to the parent of the requesting node, the
\* node Select had chosen
attach_results_to_parent(tree_nodes, selected_id, results) ==
  IF selected_id \in Ids(tree_nodes) /\ tree_nodes[selected_id].parent_id # None
  THEN [tree_nodes EXCEPT
          ![tree_nodes[selected_id].parent_id].content.findings = Append(@, results),
          ![tree_nodes[selected_id].parent_id].search_results = results]
  ELSE tree_nodes

\* mutant: the findings are appended to the content twice
attach_results_twice(tree_nodes, selected_id, results) ==
  IF selected_id \in Ids(tree_nodes)
  THEN [tree_nodes EXCEPT
          ![selected_id].content.findings = Append(Append(@, results), results),
          ![selected_id].search_results = results]
  ELSE tree_nodes

\* node.content += "[System Notification: Search Results]" + results, and the
\* results kept on the node for the verification of mcts_reflect_node
attach_results(tree_nodes, selected_id, results) ==
  IF selected_id \in Ids(tree_nodes)
  THEN [tree_nodes EXCEPT
          ![selected_id].content.findings = Append(@, results),
          ![selected_id].search_results = results]
  ELSE tree_nodes

tool_node ==
  /\ pc = "tool_node"
  /\ IF pending_search_query = None
     THEN /\ pc' = "mcts_expand"
          /\ UNCHANGED << tree_state, pending_search_query, hist >>
     ELSE \E results \in RetrievalOutcomes :
            IF results = "raise"
            THEN \* tool_node does not catch what perform_web_search raises
                 /\ pc' = "crashed"
                 /\ hist' = [hist EXCEPT !.retrieval_raised = TRUE]
                 /\ UNCHANGED << tree_state, pending_search_query >>
            ELSE /\ tree_state' = attach_results(tree_state, selected_node_id, results)
                 /\ pending_search_query' = None
                 /\ hist' = [hist EXCEPT !.detours = @ + 1]
                 /\ pc' = "mcts_expand"
  /\ UNCHANGED << root_id, selected_node_id, search_budget, current_children_ids,
                  reflected_ids, evaluated_ids, best_terminal_id, initial_plan,
                  final_answer, fn >>

\* reflect_single: the quality signal of the critique, then the verification
\* against the attached findings
reflection_score_of(q) ==
  IF q = "exception" THEN Pct(50)
  ELSE IF q = "HIGH" THEN Pct(90)
  ELSE IF q = "MEDIUM" THEN Pct(60)
  ELSE Pct(30)

external_score_of(x) == IF x = Unparsable THEN Pct(50) ELSE Pct(x)

reflect_single(child, q, x) ==
  IF q = "exception"
  THEN [child EXCEPT !.reflection = "Reflection failed", !.reflection_score = Pct(50)]
  ELSE [child EXCEPT !.reflection = q,
                     !.reflection_score = reflection_score_of(q),
                     !.external_score = IF child.search_results # "none"
                                        THEN external_score_of(x) ELSE @]

mcts_reflect_node ==
  /\ pc = "mcts_reflect"
  /\ LET child_ids == current_children_ids IN
     IF child_ids = << >>
     THEN UNCHANGED << tree_state, reflected_ids >>
     ELSE /\ \E q \in [1..Len(child_ids) -> ReflectOutcomes] :
             \E x \in [1..Len(child_ids) -> ExternalOutcomes] :
               \* a verification reply exists only for a node with findings
               /\ \A j \in 1..Len(child_ids) :
                     (q[j] = "exception" \/ tree_state[child_ids[j]].search_results = "none")
                        => x[j] = 0
               /\ tree_state' = [i \in Ids(tree_state) |->
                     IF \E j \in 1..Len(child_ids) : child_ids[j] = i
                     THEN LET j == CHOOSE j \in 1..Len(child_ids) : child_ids[j] = i
                          IN reflect_single(tree_state[i], q[j], x[j])
                     ELSE tree_state[i]]
          /\ reflected_ids' = child_ids
  /\ pc' = "mcts_evaluate"
  /\ UNCHANGED << root_id, selected_node_id, search_budget, pending_search_query,
                  current_children_ids, evaluated_ids, best_terminal_id,
                  initial_plan, final_answer, hist, fn >>

clamp01(v) == IF v > One THEN One ELSE IF v < 0 THEN 0 ELSE v

\* mutant: the weights of MCTSNode.combined_score (0.4 / 0.6, reflection alone
\* without external feedback) instead of those of mcts_evaluate_node
combined_score_weighted(child) ==
  LET terminal_bonus == IF child.is_terminal THEN Pct(20) ELSE 0
  IN clamp01(IF child.external_score > 0
             THEN (child.reflection_score * 4) \div 10
                  + (child.external_score * 6) \div 10 + terminal_bonus
             ELSE child.reflection_score + terminal_bonus)

combined_score(child) ==
  LET terminal_bonus == IF child.is_terminal THEN Pct(20) ELSE 0
  IN clamp01(IF child.external_score > 0
             THEN (child.reflection_score * 3) \div 10
                  + (child.external_score * 5) \div 10 + terminal_bonus
             ELSE (child.reflection_score * 8) \div 10 + terminal_bonus)

InSeq(x, s) == \E j \in 1..Len(s) : s[j] = x

\* mutant: Evaluate stores the score without counting the observation
evaluate_batch_unvisited(tree_nodes, child_ids) ==
  [i \in Ids(tree_nodes) |->
     IF InSeq(i, child_ids)
     THEN [tree_nodes[i] EXCEPT !.value = combined_score(tree_nodes[i]), !.visits = 0]
     ELSE tree_nodes[i]]

evaluate_batch(tree_nodes, child_ids) ==
  [i \in Ids(tree_nodes) |->
     IF InSeq(i, child_ids)
     THEN [tree_nodes[i] EXCEPT !.value = combined_score(tree_nodes[i]), !.visits = 1]
     ELSE tree_nodes[i]]

mcts_evaluate_node ==
  /\ pc = "mcts_evaluate"
  /\ LET child_ids == IF reflected_ids # << >> THEN reflected_ids ELSE current_children_ids IN
     IF child_ids = << >>
     THEN UNCHANGED << tree_state, evaluated_ids, hist >>
     ELSE /\ tree_state' = evaluate_batch(tree_state, child_ids)
          /\ evaluated_ids' = child_ids
          /\ hist' = [hist EXCEPT !.all_040 =
                        @ /\ \A j \in 1..Len(child_ids) :
                                 tree_state'[child_ids[j]].value = Pct(40)]
  /\ pc' = "mcts_backprop"
  /\ UNCHANGED << root_id, selected_node_id, search_budget, pending_search_query,
                  current_children_ids, reflected_ids, best_terminal_id,
                  initial_plan, final_answer, fn >>

\* the loop of mcts_backprop_node over the evaluated children
RECURSIVE backprop_loop(_, _, _, _)
backprop_loop(tree_nodes, child_ids, i, acc) ==
  IF i > Len(child_ids) THEN [acc EXCEPT !.tree = tree_nodes]
  ELSE LET cid == child_ids[i]
           t == backpropagate(tree_nodes, cid, tree_nodes[cid].value)
           node == t[cid]
           hit == node.is_terminal /\ node.value > Pct(70)
       IN backprop_loop(t, child_ids, i + 1,
             [acc EXCEPT !.max_score = IF node.value > @ THEN node.value ELSE @,
                         !.found_terminal = @ \/ hit,
                         !.best_terminal_id = IF hit THEN cid ELSE @])

backprop_batch(tree_nodes, child_ids) ==
  backprop_loop(tree_nodes, child_ids, 1,
     [tree |-> tree_nodes, max_score |-> 0, found_terminal |-> FALSE,
      best_terminal_id |-> None])

\* mutant: the budget is decremented once per evaluated child of a batch of two
new_budget_twice(budget, early_exit) == IF early_exit THEN 0 ELSE budget - 2

\* "Decrement budget once per expansion step", forced to 0 on early exit
new_budget_of(budget, early_exit) == IF early_exit THEN 0 ELSE budget - 1

should_continue_mcts(budget) == IF budget > 0 THEN "mcts_select" ELSE "mcts_final"

\* the early-exit condition as the design states it, on the values that
\* mcts_evaluate_node assigned to the batch
StatedExitCondition(tree_nodes, child_ids) ==
  \E j \in 1..Len(child_ids) :
     \/ tree_nodes[child_ids[j]].is_terminal /\ tree_nodes[child_ids[j]].value > Pct(70)
     \/ tree_nodes[child_ids[j]].value > Pct(95)

mcts_backprop_node ==
  /\ pc = "mcts_backprop"
  /\ LET child_ids == evaluated_ids
         b == backprop_batch(tree_state, child_ids)
         early_exit == child_ids # << >> /\ (b.found_terminal \/ b.max_score > Pct(95))
         new_budget == new_budget_of(search_budget, early_exit)
         stated == StatedExitCondition(tree_state, child_ids)
     IN /\ search_budget' = new_budget
        /\ IF child_ids = << >>
           THEN UNCHANGED << tree_state, best_terminal_id >>
           ELSE /\ tree_state' = b.tree
                /\ best_terminal_id' = IF b.best_terminal_id # None
                                       THEN b.best_terminal_id ELSE best_terminal_id
        /\ hist' = [hist EXCEPT !.cycles = @ + 1,
                                !.detours = 0,
                                !.all_failed = FALSE,
                                !.last_detours = hist.detours,
                                !.early_exit = early_exit,
                                !.exit_cycle = IF @ = 0 /\ early_exit THEN hist.cycles + 1 ELSE @,
                                !.cond_cycle = IF @ = 0 /\ stated THEN hist.cycles + 1 ELSE @]
        /\ pc' = should_continue_mcts(new_budget)
  /\ UNCHANGED << root_id, selected_node_id, pending_search_query,
                  current_children_ids, reflected_ids, evaluated_ids,
                  initial_plan, final_answer, fn >>

\* the walk of mcts_finalize_node: max(children_ids, key=visits) returns the
\* first child with the largest visit count
\* mutant: min instead of max, the first child with the fewest visits
least_visited_child(tree_nodes, node) ==
  LET kids == node.children_ids
      j == CHOOSE j \in 1..Len(kids) :
              /\ \A k \in 1..Len(kids) : tree_nodes[kids[k]].visits >= tree_nodes[kids[j]].visits
              /\ \A k \in 1..(j - 1) : tree_nodes[kids[k]].visits > tree_nodes[kids[j]].visits
  IN kids[j]

most_visited_child(tree_nodes, node) ==
  LET kids == node.children_ids
      j == CHOOSE j \in 1..Len(kids) :
              /\ \A k \in 1..Len(kids) : tree_nodes[kids[k]].visits <= tree_nodes[kids[j]].visits
              /\ \A k \in 1..(j - 1) : tree_nodes[kids[k]].visits < tree_nodes[kids[j]].visits
  IN kids[j]

RECURSIVE most_visited_leaf(_, _)
most_visited_leaf(tree_nodes, current_id) ==
  IF tree_nodes[current_id].children_ids = << >> THEN current_id
  ELSE most_visited_leaf(tree_nodes, most_visited_child(tree_nodes, tree_nodes[current_id]))

\* the first terminal node, in insertion order, whose answer is long enough
fallback_terminal(tree_nodes) ==
  LET T == {i \in Ids(tree_nodes) :
               tree_nodes[i].is_terminal /\ ~answer_too_short(tree_nodes[i].content)}
  IN IF T = {} THEN None ELSE CHOOSE i \in T : \A k \in T : i <= k

finalize_leaf(tree_nodes, root, best_terminal) ==
  LET best_leaf == IF best_terminal # None /\ best_terminal \in Ids(tree_nodes)
                   THEN best_terminal
                   ELSE most_visited_leaf(tree_nodes, root)
  IN IF answer_too_short(tree_nodes[best_leaf].content) /\ fallback_terminal(tree_nodes) # None
     THEN fallback_terminal(tree_nodes)
     ELSE best_leaf

mcts_finalize_node ==
  /\ pc = "mcts_final"
  /\ final_answer' =
       IF tree_state[root_id].children_ids = << >>
       THEN [complete |-> TRUE, leaf |-> None]
       ELSE [complete |-> TRUE, leaf |-> finalize_leaf(tree_state, root_id, best_terminal_id)]
  /\ pc' = "done"
  /\ UNCHANGED << tree_state, root_id, selected_node_id, search_budget,
                  pending_search_query, current_children_ids, reflected_ids,
                  evaluated_ids, best_terminal_id, initial_plan, hist, fn >>

Next ==
  \/ plan_node
  \/ initialize_tree_node
  \/ mcts_select_node
  \/ mcts_expand_node
  \/ tool_node
  \/ mcts_reflect_node
  \/ mcts_evaluate_node
  \/ mcts_backprop_node
  \/ mcts_finalize_node

Spec == Init /\ [][Next]_vars

\* the sessions of scenario B of the design: the budget is 3
InitScenarioB == initial_state({3})

SpecScenarioB == InitScenarioB /\ [][Next]_vars

\* ------------------------------- direct calls of the functions of mcts.py
\* The statistics a node of an arbitrary input tree may carry, and the values
\* handed to backpropagate.
FnStats ==
  { [visits |-> 0, value |-> 0],
    [visits |-> 1, value |-> Pct(24)],
    [visits |-> 1, value |-> Pct(72)],
    [visits |-> 2, value |-> Pct(96)] }
FnValues == {0, Pct(50), Pct(92)}

Perms(n) == {o \in [1..n -> 1..n] : \A i, j \in 1..n : o[i] = o[j] => i = j}

\* the parent references of the trees on the ids 1..n whose root is 1
ParentMaps(n) ==
  {par \in [1..n -> 0..n] : par[1] = 0 /\ \A i \in 2..n : par[i] >= 1 /\ par[i] < i}

\* the tree with parent references par, statistics st, and each child list
\* ordered as the ids occur in ord
fn_tree(n, par, st, ord) ==
  [i \in 1..n |->
     [ MCTSNode([kind |-> IF i = 1 THEN "root" ELSE "thought", findings |-> << >>],
                IF i = 1 THEN "user" ELSE "assistant",
                IF i = 1 THEN None ELSE par[i])
         EXCEPT !.children_ids = SelectSeq(ord, LAMBDA j : j > 1 /\ par[j] = i),
                !.visits = st[i].visits,
                !.value = st[i].value ]]

FnInit ==
  /\ pc = "fn"
  /\ \E n \in 1..FnMaxNodes :
       \E par \in ParentMaps(n) :
         \E st \in [1..n -> FnStats] :
           \E ord \in Perms(n) :
             tree_state = fn_tree(n, par, st, ord)
  /\ root_id = 1
  /\ selected_node_id = None
  /\ search_budget = 0
  /\ pending_search_query = None
  /\ current_children_ids = << >>
  /\ reflected_ids = << >>
  /\ evaluated_ids = << >>
  /\ best_terminal_id = None
  /\ initial_plan = "none"
  /\ final_answer = [complete |-> FALSE, leaf |-> None]
  /\ hist = [budget0 |-> 0, cycles |-> 0, detours |-> 0, last_detours |-> 0,
             early_exit |-> FALSE, exit_cycle |-> 0, cond_cycle |-> 0,
             all_040 |-> TRUE, retrieval_raised |-> FALSE,
             all_failed |-> FALSE]
  /\ fn = [op |-> "none"]

fn_unchanged ==
  UNCHANGED << pc, root_id, selected_node_id, search_budget, pending_search_query,
               current_children_ids, reflected_ids, evaluated_ids, best_terminal_id,
               initial_plan, final_answer, hist >>

call_select_leaf ==
  /\ pc = "fn" /\ fn.op = "none"
  /\ fn' = [op |-> "select_leaf", before |-> tree_state,
            result |-> select_leaf(tree_state, root_id)]
  /\ UNCHANGED tree_state
  /\ fn_unchanged

call_backpropagate ==
  /\ pc = "fn" /\ fn.op = "none"
  /\ \E node_id \in Ids(tree_state) : \E value \in FnValues :
       /\ tree_state' = backpropagate(tree_state, node_id, value)
       /\ fn' = [op |-> "backpropagate", before |-> tree_state,
                 node_id |-> node_id, value |-> value]
  /\ fn_unchanged

FnNext == call_select_leaf \/ call_backpropagate

SpecFn == FnInit /\ [][FnNext]_vars

\* ------------------------------------------- select_leaf, executed twice
\* what Select does not read: the trees that agree with tree_nodes on the
\* nodes, parent and child lists, visit counts and cumulative values, and
\* carry other critique scores and terminal flags
SameStatistics(tree_nodes) ==
  { [i \in Ids(tree_nodes) |->
       [tree_nodes[i] EXCEPT !.reflection_score = rs[i],
                             !.is_terminal = (i \in term)]] :
      rs \in [Ids(tree_nodes) -> {0, Pct(90)}],
      term \in {{}, Ids(tree_nodes) \ {1}} }

call_select_leaf_twice ==
  /\ pc = "fn" /\ fn.op = "none"
  /\ \E other \in SameStatistics(tree_state) :
        fn' = [op |-> "select_twice", before |-> tree_state, other |-> other,
               result |-> select_leaf(tree_state, root_id),
               second |-> select_leaf(other, root_id)]
  /\ UNCHANGED tree_state
  /\ fn_unchanged

SpecSelectTwice == FnInit /\ [][call_select_leaf_twice]_vars

\* ------------------------- get_adaptive_branching_factor, on pairs of nodes
\* the cumulative values the children of the expanded node may carry
ChildValues == {0, Pct(40), Pct(80), Pct(160)}

\* a chain of `depth` nodes from the root (node 1) down to node `depth`,
\* which has one child per value of child_values
chain_tree(depth, child_values) ==
  [i \in 1..(depth + Len(child_values)) |->
     [ MCTSNode([kind |-> IF i = 1 THEN "root" ELSE "thought", findings |-> << >>],
                IF i = 1 THEN "user" ELSE "assistant",
                IF i = 1 THEN None ELSE IF i <= depth THEN i - 1 ELSE depth)
         EXCEPT !.children_ids =
                   IF i < depth THEN << i + 1 >>
                   ELSE IF i = depth THEN [j \in 1..Len(child_values) |-> depth + j]
                   ELSE << >>,
                !.visits = 1,
                !.value = IF i > depth THEN child_values[i - depth] ELSE Pct(40) ]]

CallInit ==
  /\ pc = "fn"
  /\ tree_state = fn_tree(1, << 0 >>, << [visits |-> 0, value |-> 0] >>, << 1 >>)
  /\ root_id = 1
  /\ selected_node_id = None
  /\ search_budget = 0
  /\ pending_search_query = None
  /\ current_children_ids = << >>
  /\ reflected_ids = << >>
  /\ evaluated_ids = << >>
  /\ best_terminal_id = None
  /\ initial_plan = "none"
  /\ final_answer = [complete |-> FALSE, leaf |-> None]
  /\ hist = [budget0 |-> 0, cycles |-> 0, detours |-> 0, last_detours |-> 0,
             early_exit |-> FALSE, exit_cycle |-> 0, cond_cycle |-> 0,
             all_040 |-> TRUE, retrieval_raised |-> FALSE, all_failed |-> FALSE]
  /\ fn = [op |-> "none"]

\* the function called on two nodes at the same depth, each in its own tree
call_branching_pair ==
  /\ pc = "fn" /\ fn.op = "none"
  /\ \E depth \in 1..BranchMaxDepth :
       \E ka, kb \in 0..BranchMaxKids :
         \E a \in [1..ka -> ChildValues] : \E b \in [1..kb -> ChildValues] :
            fn' = [op |-> "branching", depth |-> depth, a |-> a, b |-> b,
                   factor_a |-> get_adaptive_branching_factor(chain_tree(depth, a), depth),
                   factor_b |-> get_adaptive_branching_factor(chain_tree(depth, b), depth)]
  /\ UNCHANGED tree_state
  /\ fn_unchanged

SpecBranching == CallInit /\ [][call_branching_pair]_vars

\* ------------------------------ the text mcts_expand_node stores for a call
\* A generated text is a sequence of pieces: the opening and the closing
\* marker of a search directive, one non-blank character, one blank
\* character, and a run of 50 non-blank characters.
Pieces == {"<search>", "</search>", "q", " ", "fabricated-50"}

PieceLen(p) ==
  IF p = "<search>" THEN 8 ELSE IF p = "</search>" THEN 9
  ELSE IF p = "fabricated-50" THEN 50 ELSE 1

RECURSIVE TextLen(_)
TextLen(text) == IF text = << >> THEN 0 ELSE PieceLen(Head(text)) + TextLen(Tail(text))

\* the first position >= from at which piece p occurs, 0 if there is none
Find(text, p, from) ==
  LET at == {i \in from..Len(text) : text[i] = p}
  IN IF at = {} THEN 0 ELSE CHOOSE i \in at : \A k \in at : i <= k

\* re.search(r"<search>(.*?)</search>", response, re.DOTALL): the first
\* opening marker and the first closing marker after it; the group, stripped
search_match(response) ==
  LET open == Find(response, "<search>", 1)
      close == IF open = 0 THEN 0 ELSE Find(response, "</search>", open + 1)
  IN [found |-> close # 0, open |-> open, close |-> close]

strip(text) ==
  LET keep == {i \in 1..Len(text) : text[i] # " "}
  IN IF keep = {} THEN << >>
     ELSE SubSeq(text, CHOOSE i \in keep : \A k \in keep : i <= k,
                       CHOOSE i \in keep : \A k \in keep : i >= k)

\* parse_search_request: the query, or "no match"; the empty query is falsy
search_query_of(response) ==
  LET m == search_match(response)
  IN IF m.found THEN strip(SubSeq(response, m.open + 1, m.close - 1)) ELSE << "no match" >>

search_query_truthy(response) ==
  search_match(response).found /\ search_query_of(response) # << >>

\* if search_query: response_text = response_text[:find(end_tag) + len(end_tag)]
stored_text(response_text) ==
  IF search_query_truthy(response_text) /\ Find(response_text, "</search>", 1) # 0
  THEN SubSeq(response_text, 1, Find(response_text, "</search>", 1))
  ELSE response_text

call_store_candidate ==
  /\ pc = "fn" /\ fn.op = "none"
  /\ \E n \in 1..TextMaxLen : \E response_text \in [1..n -> Pieces] :
        fn' = [op |-> "store", text |-> response_text,
               content |-> stored_text(response_text),
               over_20 |-> search_query_truthy(response_text)
                           /\ TextLen(response_text) - TextLen(stored_text(response_text)) > 20]
  /\ UNCHANGED tree_state
  /\ fn_unchanged

SpecText == CallInit /\ [][call_store_candidate]_vars

\* ------------------------------------------- reflect_single, called directly
\* the critique the Generator returns: a text with "QUALITY: HIGH", with
\* "QUALITY: MEDIUM", with "QUALITY: LOW", a text without any quality line,
\* or no text at all (the call raises)
CritiqueOutcomes == {"HIGH", "MEDIUM", "LOW", "no signal", "exception"}

\* the nodes a batch may hold when mcts_reflect_node runs
ReflectInputs ==
  { [ MCTSNode([kind |-> k, findings |-> IF sr = "none" THEN << >> ELSE << sr >>],
               "assistant", 1)
        EXCEPT !.is_terminal = (k = "answer"),
               !.search_results = sr,
               !.reflection_score = rs ] :
      k \in {"thought", "search", "answer"},
      sr \in {"none"} \cup RetrievalTexts,
      rs \in {0, Pct(90)} }

call_reflect_single ==
  /\ pc = "fn" /\ fn.op = "none"
  /\ \E child \in ReflectInputs : \E q \in CritiqueOutcomes : \E x \in ExternalOutcomes :
        fn' = [op |-> "reflect", child |-> child, critique |-> q, verification |-> x,
               result |-> reflect_single(child, q, x)]
  /\ UNCHANGED tree_state
  /\ fn_unchanged

SpecReflect == CallInit /\ [][call_reflect_single]_vars

\* ------------------------- one Expand step, call by call (asyncio.gather)
\* The step of mcts_expand_node with its generation calls made visible: the
\* calls are created and handed to asyncio.gather together, settle one by one
\* in any order, and the results are processed, in the order of the calls,
\* once none is running.  fn holds the gather: the state of each call, the
\* number of requests made for it (each task is one llm.chat coroutine, which
\* posts one request; predict_with_retry is not used), and the order in which
\* the calls settled.
ExpandInit ==
  /\ pc = "mcts_expand"
  /\ \E st \in FnStats \ {[visits |-> 0, value |-> 0]} : \E n \in 1..2 :
        tree_state = fn_tree(n, [i \in 1..n |-> i - 1],
                             [i \in 1..n |-> IF i = 1 THEN [visits |-> 1, value |-> 0] ELSE st],
                             [i \in 1..n |-> i])
  /\ root_id = 1
  /\ selected_node_id = Len(tree_state)
  /\ search_budget = 1
  /\ pending_search_query = None
  /\ current_children_ids = IF Len(tree_state) = 1 THEN << >> ELSE << 2 >>
  /\ reflected_ids = current_children_ids
  /\ evaluated_ids = current_children_ids
  /\ best_terminal_id = None
  /\ initial_plan = "plan"
  /\ final_answer = [complete |-> FALSE, leaf |-> None]
  /\ hist = [budget0 |-> Len(tree_state), cycles |-> Len(tree_state) - 1, detours |-> 0,
             last_detours |-> 0, early_exit |-> FALSE, exit_cycle |-> 0,
             cond_cycle |-> 0, all_040 |-> FALSE, retrieval_raised |-> FALSE,
             all_failed |-> FALSE]
  /\ fn = [op |-> "none"]

expand_unchanged ==
  UNCHANGED << root_id, search_budget, reflected_ids, evaluated_ids,
               best_terminal_id, initial_plan, final_answer >>

\* tasks = [llm.chat(...) for _ in range(num_candidates)], handed to gather
expand_issue ==
  /\ pc = "mcts_expand" /\ fn.op = "none"
  /\ selected_node_id \in Ids(tree_state)
  /\ fn' = [op |-> "gather",
            before |-> tree_state,
            tasks |-> [i \in 1..get_adaptive_branching_factor(tree_state, selected_node_id)
                         |-> "running"],
            attempts |-> [i \in 1..get_adaptive_branching_factor(tree_state, selected_node_id)
                            |-> 1],
            settled |-> << >>]
  /\ UNCHANGED << pc, tree_state, selected_node_id, pending_search_query,
                  current_children_ids, hist >>
  /\ expand_unchanged

\* one running call returns or raises; gather keeps the outcome at the
\* position of the call
expand_settle ==
  /\ pc = "mcts_expand" /\ fn.op = "gather"
  /\ \E i \in 1..Len(fn.tasks) : \E r \in GenOutcomes :
        /\ fn.tasks[i] = "running"
        /\ fn' = [fn EXCEPT !.tasks[i] = r, !.settled = Append(@, i)]
  /\ UNCHANGED << pc, tree_state, selected_node_id, pending_search_query,
                  current_children_ids, hist >>
  /\ expand_unchanged

\* gather returns when no call is running; the loop over the results follows
expand_collect ==
  /\ pc = "mcts_expand" /\ fn.op = "gather"
  /\ \A i \in 1..Len(fn.tasks) : fn.tasks[i] # "running"
  /\ process_results(fn.tasks)
  /\ fn' = [fn EXCEPT !.op = "gathered"]
  /\ expand_unchanged

ExpandNext == expand_issue \/ expand_settle \/ expand_collect

SpecExpand == ExpandInit /\ [][ExpandNext]_vars

\* ------------------------- the retrieval cache (tools.py), module-level
\* _search_cache is created once when tools.py is loaded and lives as long as
\* the process: every session's tool_node reaches it through
\* perform_web_search.  The cache is a dict: a sequence of entries in
\* insertion order; an entry holds the text, the time it was stored and (for
\* the properties only) the session whose call stored it.  Time is counted in
\* minutes.  md5 collisions of the key string are not modelled.
Sessions == {1, 2}
Providers == {"ddg", "tavily"}
Queries == {"q1"}
Depths == {"selective"}
ProviderTexts == {"", "old", "new"}
ProviderOutcomes == ProviderTexts \cup {"raise"}
CacheTTL == 10
CacheLimit == 100
EvictCount == 20

_get_cache_key(query, depth, provider) == << provider, query, depth >>

cache_index(cache, key) ==
  IF \E i \in 1..Len(cache) : cache[i].key = key
  THEN CHOOSE i \in 1..Len(cache) : cache[i].key = key
  ELSE 0

RECURSIVE cache_without(_, _, _)
cache_without(cache, drop, i) ==
  IF i > Len(cache) THEN << >>
  ELSE (IF i \in drop THEN << >> ELSE << cache[i] >>) \o cache_without(cache, drop, i + 1)

\* (result, cache afterwards): a hit while the entry is younger than the TTL,
\* otherwise the expired entry is deleted
_get_cached_result(cache, key, now) ==
  LET i == cache_index(cache, key) IN
  IF i = 0 THEN [hit |-> FALSE, text |-> "", by |-> None, cache |-> cache]
  ELSE IF now - cache[i].ts < CacheTTL
       THEN [hit |-> TRUE, text |-> cache[i].text, by |-> cache[i].by, cache |-> cache]
       ELSE [hit |-> FALSE, text |-> "", by |-> None,
             cache |-> cache_without(cache, {i}, 1)]

\* mutant: sorted in reverse, the newest entries are dropped
newest_keys(cache) ==
  { i \in 1..Len(cache) :
      Cardinality({ j \in 1..Len(cache) :
                      \/ cache[j].ts > cache[i].ts
                      \/ (cache[j].ts = cache[i].ts /\ j < i) }) < EvictCount }

\* sorted(keys, key = timestamp)[:20]: the oldest entries, ties in dict order
oldest_keys(cache) ==
  { i \in 1..Len(cache) :
      Cardinality({ j \in 1..Len(cache) :
                      \/ cache[j].ts < cache[i].ts
                      \/ (cache[j].ts = cache[i].ts /\ j < i) }) < EvictCount }

_cache_result(cache, key, text, now, by) ==
  LET entry == [key |-> key, text |-> text, ts |-> now, by |-> by]
      i == cache_index(cache, key)
      stored == IF i = 0 THEN Append(cache, entry) ELSE [cache EXCEPT ![i] = entry]
  IN IF Len(stored) > CacheLimit
     THEN cache_without(stored, oldest_keys(stored), 1)
     ELSE stored

\* perform_web_search for one session: outcome is what the provider answers
\* now ("raise": all three attempts failed).  The result names the text
\* returned, whether it came from the cache, and the cache afterwards.
perform_web_search(cache, session, query, depth, provider, outcome, now) ==
  LET key == _get_cache_key(query, depth, provider)
      cached == _get_cached_result(cache, key, now)
  IN IF cached.hit /\ cached.text # ""
     THEN [text |-> cached.text, cached |-> TRUE, by |-> cached.by,
           cache |-> cached.cache]
     ELSE IF outcome = "raise"
     THEN [text |-> "raise", cached |-> FALSE, by |-> session, cache |-> cached.cache]
     ELSE IF provider = "tavily"
     THEN [text |-> outcome, cached |-> FALSE, by |-> session,
           cache |-> _cache_result(cached.cache, key, outcome, now, session)]
     ELSE IF outcome = ""
     THEN [text |-> "No search results found.", cached |-> FALSE, by |-> session,
           cache |-> cached.cache]
     ELSE [text |-> outcome, cached |-> FALSE, by |-> session,
           cache |-> _cache_result(cached.cache, key, outcome, now, session)]

\* two sessions of one process calling Retrieval: fn holds the clock, the
\* cache and the last call
CacheInit ==
  /\ pc = "fn"
  /\ tree_state = fn_tree(1, << 0 >>, << [visits |-> 0, value |-> 0] >>, << 1 >>)
  /\ root_id = 1
  /\ selected_node_id = None
  /\ search_budget = 0
  /\ pending_search_query = None
  /\ current_children_ids = << >>
  /\ reflected_ids = << >>
  /\ evaluated_ids = << >>
  /\ best_terminal_id = None
  /\ initial_plan = "none"
  /\ final_answer = [complete |-> FALSE, leaf |-> None]
  /\ hist = [budget0 |-> 0, cycles |-> 0, detours |-> 0, last_detours |-> 0,
             early_exit |-> FALSE, exit_cycle |-> 0, cond_cycle |-> 0,
             all_040 |-> TRUE, retrieval_raised |-> FALSE, all_failed |-> FALSE]
  /\ fn = [op |-> "cache", now |-> 0, cache |-> << >>,
           last |-> [session |-> None, key |-> << >>,
                     text |-> "", cached |-> FALSE, by |-> None]]

clock_tick ==
  /\ pc = "fn" /\ fn.op = "cache"
  /\ fn.now < MaxClock
  /\ fn' = [fn EXCEPT !.now = fn.now + 1]
  /\ UNCHANGED tree_state
  /\ fn_unchanged

call_perform_web_search ==
  /\ pc = "fn" /\ fn.op = "cache"
  /\ \E s \in Sessions : \E q \in Queries : \E d \in Depths : \E p \in Providers :
     \E outcome \in ProviderOutcomes :
        LET r == perform_web_search(fn.cache, s, q, d, p, outcome, fn.now) IN
        fn' = [fn EXCEPT !.cache = r.cache,
                         !.last = [session |-> s, key |-> _get_cache_key(q, d, p),
                                   text |-> r.text,
                                   cached |-> r.cached, by |-> r.by]]
  /\ UNCHANGED tree_state
  /\ fn_unchanged

CacheNext == clock_tick \/ call_perform_web_search

SpecCache == CacheInit /\ [][CacheNext]_vars

\* ------------------------- the two endpoints of a session (api/routes.py)
\* fn holds the request and what the caller receives: the endpoint called,
\* the HTTP response of the blocking endpoint (status 0: none yet), the events
\* the streaming endpoint has emitted, and the exception that left its event
\* generator.
Endpoints == {"blocking", "streaming"}
StateKeywords == {"query", "history", "model"}
BlockingKeywords == {"query"}
StreamKeywords == {"query", "history", "model", "fast_model"}

\* create_initial_state(query, history = [], model = None): a call naming any
\* other parameter raises TypeError
create_initial_state_accepts(keywords) == keywords \subseteq StateKeywords

SessionInit ==
  /\ pc = "plan"
  /\ tree_state = << >>
  /\ root_id = None
  /\ selected_node_id = None
  /\ search_budget \in 0..MaxBudget
  /\ pending_search_query = None
  /\ current_children_ids = << >>
  /\ reflected_ids = << >>
  /\ evaluated_ids = << >>
  /\ best_terminal_id = None
  /\ initial_plan = "none"
  /\ final_answer = [complete |-> FALSE, leaf |-> None]
  /\ hist = [budget0 |-> search_budget, cycles |-> 0, detours |-> 0, last_detours |-> 0,
             early_exit |-> FALSE, exit_cycle |-> 0, cond_cycle |-> 0,
             all_040 |-> TRUE, retrieval_raised |-> FALSE,
             all_failed |-> FALSE]
  /\ \E e \in Endpoints :
        fn = [op |-> "none", endpoint |-> e, events |-> << >>, raised |-> "none",
              response |-> [status |-> 0, final_answer |-> [complete |-> FALSE, leaf |-> None]]]

session_unchanged ==
  UNCHANGED << pc, tree_state, root_id, selected_node_id, search_budget,
               pending_search_query, current_children_ids, reflected_ids,
               evaluated_ids, best_terminal_id, initial_plan, final_answer, hist >>

\* reason: graph.ainvoke(initial_state) runs the graph to its end
reason_ainvoke ==
  /\ fn.endpoint = "blocking" /\ fn.response.status = 0
  /\ create_initial_state_accepts(BlockingKeywords)
  /\ Next

\* reason: the result of ainvoke becomes the response; an exception of the
\* graph becomes HTTPException(500) with the message only
reason_respond ==
  /\ fn.endpoint = "blocking" /\ fn.response.status = 0
  /\ pc \in {"done", "crashed"}
  /\ fn' = [fn EXCEPT !.response =
              IF pc = "crashed"
              THEN [status |-> 500, final_answer |-> [complete |-> FALSE, leaf |-> None]]
              ELSE [status |-> 200, final_answer |-> final_answer]]
  /\ session_unchanged

\* reason_stream: the first statement of event_generator that can fail is the
\* call create_initial_state(..., fast_model = fast_model); it raises
\* TypeError outside every try, before the queue and the producer task exist,
\* so the generator ends with the exception and has emitted nothing
event_generator ==
  /\ fn.endpoint = "streaming" /\ fn.response.status = 0 /\ fn.raised = "none"
  /\ ~create_initial_state_accepts(StreamKeywords)
  /\ fn' = [fn EXCEPT !.raised = "TypeError"]
  /\ session_unchanged

SessionNext == reason_ainvoke \/ reason_respond \/ event_generator

SpecSession == SessionInit /\ [][SessionNext]_vars

\* ------------------------------------------------- the cache at capacity
\* _cache_result called on a cache that is full or one entry short of it.
\* The caches are those a process can hold: at most CacheLimit entries with
\* distinct keys, in insertion order, with timestamps not after the present
\* call.  An entry stored again keeps its place and takes a new timestamp, so
\* the timestamps need not follow the insertion order: they are drawn from
\* the patterns (stride * position) mod period, which repeat and interleave.
Strides == {1, 2, 3}
Periods == 1..MaxPeriod

full_cache(n, stride, period) ==
  [i \in 1..n |-> [key |-> _get_cache_key(i, "selective", "ddg"), text |-> "old",
                    ts |-> (stride * i) % period, by |-> 1]]

call_cache_result ==
  /\ pc = "fn" /\ fn.op = "none"
  /\ \E n \in {CacheLimit - 1, CacheLimit} : \E stride \in Strides : \E period \in Periods :
     \E q \in {1, n \div 2, n, n + 1} : \E now \in {period - 1, period} :
        LET before == full_cache(n, stride, period)
            key == _get_cache_key(q, "selective", "ddg")
        IN fn' = [op |-> "cache_result", before |-> before, key |-> key, now |-> now,
                  after |-> _cache_result(before, key, "new", now, 2)]
  /\ UNCHANGED tree_state
  /\ fn_unchanged

SpecEvict == CallInit /\ [][call_cache_result]_vars

\* ---------------------------------------------- the value function
\* The inputs of the value function of mcts_evaluate_node: the scores that
\* reflect_single can leave on a node (0.3, 0.6, 0.9 by quality, 0.5 after
\* an exception) and verification scores clamped to [0, 1], in percent.
ReflectionScores == {Pct(30), Pct(50), Pct(60), Pct(90)}
VerificationScores == {Pct(e) : e \in {0, 1, 10, 50, 90, 100}}

reflected_child(reflection_score, external_score, is_terminal) ==
  [ MCTSNode(candidate_content(IF is_terminal THEN "answer" ELSE "thought"), "assistant", 1)
      EXCEPT !.is_terminal = is_terminal,
             !.reflection_score = reflection_score,
             !.external_score = external_score ]

\* the value function applied to two nodes that differ in the verification
\* score only
call_evaluate_pair ==
  /\ pc = "fn" /\ fn.op = "none"
  /\ \E r \in ReflectionScores : \E t \in BOOLEAN : \E lo, hi \in VerificationScores :
        fn' = [op |-> "evaluate", reflection_score |-> r, is_terminal |-> t,
               external_lo |-> lo, external_hi |-> hi,
               value_lo |-> combined_score(reflected_child(r, lo, t)),
               value_hi |-> combined_score(reflected_child(r, hi, t))]
  /\ UNCHANGED tree_state
  /\ fn_unchanged

SpecEvaluate == CallInit /\ [][call_evaluate_pair]_vars

\* ------------------------------------------------------------- properties
Max(a, b) == IF a > b THEN a ELSE b
Min(a, b) == IF a < b THEN a ELSE b

RECURSIVE Pow(_, _)
Pow(b, k) == IF k = 0 THEN 1 ELSE b * Pow(b, k - 1)

\* the number of parent hops from node `from` up to node i, -1 when i is not
\* on the parent chain of `from`
RECURSIVE HopsUp(_, _, _)
HopsUp(t, from, i) ==
  IF from = None THEN -1
  ELSE IF from = i THEN 0
  ELSE LET k == HopsUp(t, t[from].parent_id, i) IN IF k < 0 THEN -1 ELSE k + 1

\* the batch mcts_evaluate_node and mcts_backprop_node work on
Batch == IF reflected_ids # << >> THEN reflected_ids ELSE current_children_ids

\* C1: a session started with budget B runs exactly B cycles before Finalize,
\* unless the early-exit condition (a terminal node valued > 0.7 or any node
\* valued > 0.95 by Evaluate) held in an earlier cycle k < B, and then it
\* runs exactly k cycles.
C1_CyclesEqualBudget ==
  pc = "done" =>
    \/ hist.cycles = hist.budget0
    \/ /\ hist.cond_cycle # 0
       /\ hist.cond_cycle < hist.budget0
       /\ hist.cycles = hist.cond_cycle

\* C2: Backprop forces the budget to 0 if and only if the batch holds a
\* terminal node whose Evaluate value is > 0.7 or a node whose Evaluate value
\* is > 0.95 (the values as Evaluate assigned them); otherwise the budget is
\* decremented by 1.
C2_EarlyExitIff ==
  [][ pc = "mcts_backprop" =>
        IF StatedExitCondition(tree_state, evaluated_ids)
        THEN search_budget' = 0
        ELSE search_budget' = search_budget - 1 ]_vars

\* C3: every session reaches Done whatever the collaborators answer: the
\* session never stops at a step other than Done.
C3_ReachesDone == pc = "done" \/ ENABLED Next

\* C4 as stated: every completed cycle decreases the budget by exactly 1, no
\* other step changes it, and it is never negative.
C4_ExactlyOnePerCycle ==
  [][ /\ pc = "mcts_backprop" => search_budget' = search_budget - 1
      /\ pc # "mcts_backprop" => search_budget' = search_budget
      /\ search_budget' >= 0 ]_vars

\* C4 as amended: every completed cycle decreases the budget by exactly 1 or,
\* when its early exit fires, sets it to 0, whatever the number of children
\* (zero included); no other step (a ToolCall -> Expand detour included)
\* changes it; it is never negative.
C4_BudgetStep ==
  /\ [](search_budget >= 0)
  /\ [][ /\ pc = "mcts_backprop" =>
              \/ search_budget' = search_budget - 1
              \/ hist'.early_exit /\ search_budget' = 0
         /\ pc # "mcts_backprop" => search_budget' = search_budget ]_vars

\* two cycles without early exit, the first without any child, the second
\* with a ToolCall detour: the budget went from 2 to 0
C4_Witness ==
  /\ hist.budget0 = 2 /\ hist.cycles = 2 /\ search_budget = 0
  /\ hist.exit_cycle = 0
  /\ hist.last_detours >= 1
  /\ Len(tree_state) = 2

TreeInv(t, r) ==
  /\ {i \in Ids(t) : t[i].parent_id = None} = {r}
  /\ \A i \in Ids(t) : i # r => t[i].parent_id \in Ids(t)
  /\ \A p0, c \in Ids(t) : InSeq(c, t[p0].children_ids) <=> t[c].parent_id = p0
  /\ \A p0 \in Ids(t) : \A j, k \in 1..Len(t[p0].children_ids) :
        t[p0].children_ids[j] = t[p0].children_ids[k] => j = k
  /\ \A p0 \in Ids(t) : \A j \in 1..Len(t[p0].children_ids) :
        t[p0].children_ids[j] \in Ids(t)

\* C5: once the tree is initialised it has exactly one node without parent,
\* the root; every other node's parent is a node of the tree; c is in the
\* child list of p exactly when c's parent is p, and once; no node is ever
\* removed.
C5_TreeWellFormed ==
  /\ [](root_id # None => TreeInv(tree_state, root_id))
  /\ [][Ids(tree_state) \subseteq Ids(tree_state')]_vars

\* a full tree with a node below a child of the root and attached findings
C5_Witness ==
  /\ Len(tree_state) = MaxNodes
  /\ \E i \in Ids(tree_state) :
        tree_state[i].parent_id # None /\ tree_state[i].parent_id # root_id
  /\ \E i \in Ids(tree_state) : tree_state[i].search_results # "none"

\* C6: no step of a session decreases the visit count of any node.
C6_VisitsMonotone ==
  [][ \A i \in Ids(tree_state) :
         i \in Ids(tree_state') /\ tree_state'[i].visits >= tree_state[i].visits ]_vars

\* every node with a visited child has itself been visited (what
\* backpropagation establishes, and what math.log(parent_visits) needs)
VisitedParents(t) ==
  \A i \in Ids(t) : i # 1 /\ t[i].visits > 0 => t[t[i].parent_id].visits > 0

Decayed(v, k) == (v \div Pow(20, 4)) * Pow(19, k) * Pow(20, 4 - k)

StatedValue(node) ==
  LET r == node.reflection_score
      e == node.external_score
      b == IF node.is_terminal THEN One \div 5 ELSE 0
  IN Min(One, Max(0, IF e > 0 THEN (3 * r + 5 * e) \div 10 + b
                              ELSE (8 * r) \div 10 + b))

C10_WinnerUsed ==
  pc = "done" /\ hist.exit_cycle # 0 =>
    /\ best_terminal_id # None
    /\ final_answer.leaf = best_terminal_id

\* node `target` is childless and reached from `cur` by moving, at every
\* node, to a child whose visit count no sibling exceeds
RECURSIVE OnMostVisitedPath(_, _, _)
OnMostVisitedPath(t, cur, target) ==
  IF t[cur].children_ids = << >> THEN cur = target
  ELSE \E j \in 1..Len(t[cur].children_ids) :
          LET c == t[cur].children_ids[j] IN
          /\ \A k \in 1..Len(t[cur].children_ids) :
                t[t[cur].children_ids[k]].visits <= t[c].visits
          /\ OnMostVisitedPath(t, c, target)

\* budget 3, every value Evaluate assigned is 0.4, no terminal candidate
ScenarioB ==
  /\ hist.budget0 = 3
  /\ hist.all_040
  /\ \A i \in Ids(tree_state) : ~tree_state[i].is_terminal

\* C11 as stated: without a recorded winner the Finalizer's answer node is
\* the childless node reached from the root through children of maximal visit
\* count; in scenario B exactly 3 cycles run before the walk.
C11_AnswerFromMostVisited ==
  pc = "done" =>
    /\ best_terminal_id = None =>
          /\ final_answer.leaf # None
          /\ OnMostVisitedPath(tree_state, root_id, final_answer.leaf)
    /\ ScenarioB => hist.cycles = 3

\* C11 as amended: the same for a root with children, except that when the
\* answer extracted from the walked node is too short and the tree holds a
\* terminal node with a longer answer, the first such terminal node is used.
C11_WalkThenFallback ==
  pc = "done" =>
    /\ (best_terminal_id = None /\ tree_state[root_id].children_ids # << >>) =>
          \E w \in Ids(tree_state) :
             /\ OnMostVisitedPath(tree_state, root_id, w)
             /\ IF answer_too_short(tree_state[w].content)
                   /\ \E i \in Ids(tree_state) :
                         tree_state[i].is_terminal /\ ~answer_too_short(tree_state[i].content)
                THEN final_answer.leaf =
                       CHOOSE i \in Ids(tree_state) :
                          /\ tree_state[i].is_terminal /\ ~answer_too_short(tree_state[i].content)
                          /\ \A k \in Ids(tree_state) :
                                (tree_state[k].is_terminal /\ ~answer_too_short(tree_state[k].content))
                                   => i <= k
                ELSE final_answer.leaf = w
    /\ ScenarioB => hist.cycles = 3
    /\ tree_state[root_id].children_ids = << >> => final_answer.leaf = None

\* scenario B ran its 3 cycles and the walk passed a sibling with fewer
\* visits to end two levels below the root
C11_Witness ==
  /\ pc = "done" /\ ScenarioB /\ hist.cycles = 3
  /\ best_terminal_id = None
  /\ Len(tree_state) = MaxNodes
  /\ tree_state[final_answer.leaf].parent_id # root_id
  /\ \E i \in Ids(tree_state) :
        /\ tree_state[i].parent_id = root_id
        /\ tree_state[i].visits < tree_state[tree_state[final_answer.leaf].parent_id].visits

\* the ids of the nodes a step created, in creation (generation) order
NewIds(t, t2) == [j \in 1..(Len(t2) - Len(t)) |-> Len(t) + j]

\* C12: after an Expand step, if a candidate of its batch holds a tool
\* directive, the first such candidate in generation order is the pending
\* request and the selected node and the next step is ToolCall; otherwise the
\* next step is Reflect, on the whole batch of this expansion.
C12_DirectiveRouting ==
  [][ (pc = "mcts_expand" /\ selected_node_id \in Ids(tree_state)) =>
        LET batch == NewIds(tree_state, tree_state')
            req == {j \in 1..Len(batch) : tree_state'[batch[j]].content.kind = "search"}
        IN IF req # {}
           THEN LET first == batch[CHOOSE j \in req : \A k \in req : j <= k]
                IN /\ pending_search_query' = first
                   /\ selected_node_id' = first
                   /\ pc' = "tool_node"
           ELSE /\ pc' = "mcts_reflect"
                /\ current_children_ids' = batch ]_vars

\* C13: a ToolCall step that obtained a retrieval text appends it to the
\* content of the in-flight node and changes nothing else in the tree, clears the pending
\* request, and hands over to Expand; the Expand step that follows a ToolCall
\* expands that same node, which carries the findings.
C13_ToolCallFrame ==
  [][ /\ (pc = "tool_node" /\ pc' # "crashed") =>
           LET n == pending_search_query IN
           /\ n \in Ids(tree_state)
           /\ Ids(tree_state') = Ids(tree_state)
           /\ \A i \in Ids(tree_state) : i # n => tree_state'[i] = tree_state[i]
           /\ \E text \in RetrievalTexts :
                 tree_state'[n] =
                   [tree_state[n] EXCEPT !.content.findings = Append(@, text),
                                         !.search_results = text]
           /\ pending_search_query' = None
           /\ pc' = "mcts_expand"
      /\ (pc = "mcts_expand" /\ hist.detours > 0) =>
           /\ tree_state[selected_node_id].content.findings # << >>
           /\ \A i \in Ids(tree_state') \ Ids(tree_state) :
                 tree_state'[i].parent_id = selected_node_id
           /\ \A i \in Ids(tree_state) : i # selected_node_id =>
                 tree_state'[i] = tree_state[i] ]_vars

\* the in-flight node carries the findings and the Expand after the ToolCall
\* gave it a child, next to a sibling that was left untouched
C13_Witness ==
  \E n \in Ids(tree_state) :
     /\ tree_state[n].content.kind = "search"
     /\ tree_state[n].content.findings # << >>
     /\ tree_state[n].children_ids # << >>
     /\ pending_search_query = None
     /\ \E m \in Ids(tree_state) :
           m # n /\ tree_state[m].parent_id = tree_state[n].parent_id

\* C14: when Retrieval has failed on 3 consecutive attempts the ToolCall step
\* still completes: a failure text is attached to the in-flight node, the
\* pending request is cleared and the session goes on with Expand.
C14_RetrievalFailureTolerated ==
  [][ (pc = "tool_node" /\ hist'.retrieval_raised) =>
        /\ pc' = "mcts_expand"
        /\ pending_search_query' = None
        /\ tree_state'[selected_node_id].content.findings # << >> ]_vars

\* C15: in a cycle whose Expand step saw every generation call fail, no step
\* changes the tree or the recorded winner, no early exit fires, and Backprop
\* takes exactly 1 from the budget.
C15_FailedBatchNoOp ==
  [][ hist.all_failed =>
        /\ tree_state' = tree_state
        /\ best_terminal_id' = best_terminal_id
        /\ pc = "mcts_backprop" =>
              /\ search_budget' = search_budget - 1
              /\ ~hist'.early_exit ]_vars

\* C16: in one Expand step all N calls are issued before any result exists
\* and the tree changes only once every call has settled; failed and empty
\* calls create no node and abort nothing: the children added to the selected
\* node are the non-empty results, one node each, in generation order,
\* whatever the order in which the calls settled.
C16_FanInThenCreate ==
  /\ [](fn.op = "gather" =>
          /\ Len(fn.tasks) = get_adaptive_branching_factor(fn.before, selected_node_id)
          /\ (\E i \in 1..Len(fn.tasks) : fn.tasks[i] = "running") => tree_state = fn.before)
  /\ [][ (fn.op = "gather" /\ fn'.op = "gathered") =>
           LET texts == SelectSeq(fn.tasks, is_text)
               new == NewIds(fn.before, tree_state')
               sel == selected_node_id
           IN /\ pc' \in {"tool_node", "mcts_reflect"}
              /\ Len(new) = Len(texts)
              /\ \A j \in 1..Len(new) :
                    /\ tree_state'[new[j]].content.kind = texts[j]
                    /\ tree_state'[new[j]].parent_id = sel
              /\ tree_state'[sel].children_ids = fn.before[sel].children_ids \o new ]_vars

\* three calls that settled in an order other than the order of the calls,
\* one failed, two children created
C16_Witness ==
  /\ fn.op = "gathered"
  /\ Len(fn.tasks) = 3
  /\ fn.settled = << 3, 1, 2 >>
  /\ fn.tasks[2] = "fail"
  /\ Len(tree_state) = Len(fn.before) + 2
  /\ fn.tasks[1] # fn.tasks[3]

\* C17: when several children of a node share the maximal selection score,
\* Select moves to the one with the smallest node id.
C17_TieSmallestId ==
  fn.op = "select_leaf" /\ VisitedParents(fn.before) =>
    LET t == fn.before
        path == fn.result.path
    IN \A k \in 1..(Len(path) - 1) :
          LET kids == t[path[k]].children_ids
              score(c) == uct_score(t[c], t[path[k]].visits)
              best == {c \in {kids[j] : j \in 1..Len(kids)} :
                         \A j \in 1..Len(kids) : score(kids[j]) <= score(c)}
          IN path[k + 1] \in best /\ \A c \in best : path[k + 1] <= c

\* C18: two executions of Select on trees with the same nodes, child lists,
\* visit counts and cumulative values return the same leaf through the same
\* path.
C18_SelectDeterministic ==
  fn.op = "select_twice" =>
    /\ fn.result.raised = fn.second.raised
    /\ fn.result.leaf = fn.second.leaf
    /\ fn.result.path = fn.second.path

\* a descent of two levels through a tie, on trees that differ in what Select
\* does not read
C18_Witness ==
  /\ fn.op = "select_twice"
  /\ fn.other # fn.before
  /\ ~fn.result.raised
  /\ Len(fn.result.path) = 3
  /\ \E j \in 1..Len(fn.before[1].children_ids) :
        /\ fn.before[1].children_ids[j] # fn.result.path[2]
        /\ fn.before[fn.before[1].children_ids[j]].visits = fn.before[fn.result.path[2]].visits
        /\ fn.before[fn.before[1].children_ids[j]].value = fn.before[fn.result.path[2]].value

\* the sample variance of the values (in 0.01 units) exceeds 0.3:
\* sum((n x_i - S)^2) / (n^2 (n - 1)) > 0.3 * 10000
VarianceAbove03(values) ==
  LET n == Len(values)
      x == [i \in 1..n |-> values[i] \div (One \div 100)]
      S == SeqSum(x)
      dev == [i \in 1..n |-> (n * x[i] - S) * (n * x[i] - S)]
  IN 10 * SeqSum(dev) > 3 * n * n * (n - 1) * 10000

C20_EndsAtClosingMarker ==
  fn.op = "store" =>
    \A i, j \in 1..Len(fn.text) :
       ( /\ i < j
         /\ fn.text[i] = "<search>" /\ fn.text[j] = "</search>"
         /\ \A k \in 1..(i - 1) : fn.text[k] # "<search>"
         /\ \A k \in (i + 1)..(j - 1) : fn.text[k] # "</search>"
         /\ TextLen(SubSeq(fn.text, j + 1, Len(fn.text))) >= 50 )
       => fn.content = SubSeq(fn.text, 1, j)

\* C21: Reflect sets the reflection score to 0.9, 0.6, 0.3 for a critique
\* with the quality signal HIGH, MEDIUM, LOW, and to the default 0.5 for a
\* critique without a parsable quality signal; the step is not aborted.
C21_QualityScore ==
  (fn.op = "reflect" /\ fn.critique # "exception") =>
     fn.result.reflection_score =
        IF fn.critique = "HIGH" THEN Pct(90)
        ELSE IF fn.critique = "MEDIUM" THEN Pct(60)
        ELSE IF fn.critique = "LOW" THEN Pct(30)
        ELSE Pct(50)

\* C22: over a session the content of a node changes after its creation at
\* most once, and only by a ToolCall step appending findings: no node
\* receives findings twice and no other step touches the content of a node.
C22_ContentChangedOnce ==
  /\ [](\A i \in Ids(tree_state) : Len(tree_state[i].content.findings) <= 1)
  /\ [][ \A i \in Ids(tree_state) :
            tree_state'[i].content # tree_state[i].content =>
               /\ pc = "tool_node"
               /\ i = pending_search_query
               /\ tree_state[i].content.findings = << >>
               /\ \E text \in RetrievalTexts :
                     tree_state'[i].content =
                        [tree_state[i].content EXCEPT !.findings = << text >>] ]_vars

\* a finished session with two ToolCall steps, on two different nodes, the
\* first of which was expanded afterwards
C22_Witness ==
  /\ pc = "done"
  /\ \E i, j \in Ids(tree_state) :
        /\ i # j
        /\ tree_state[i].content.findings # << >>
        /\ tree_state[j].content.findings # << >>
        /\ tree_state[i].children_ids # << >>

\* C24: sessions are isolated: the text a Retrieval call returns to a session
\* does not depend on the activity of another session: it is what the
\* provider answers at the time of the call, or what an earlier call of the
\* same session stored.
C24_SessionsIsolated ==
  (fn.op = "cache" /\ fn.last.session # None /\ fn.last.cached) =>
     fn.last.by = fn.last.session

\* the blocking half of C25: a session of the blocking endpoint whose graph
\* raised is answered by one HTTP 500 that carries no answer
BlockingFailureIs500 ==
  (fn.endpoint = "blocking" /\ pc = "crashed" /\ fn.response.status # 0) =>
     fn.response = [status |-> 500, final_answer |-> [complete |-> FALSE, leaf |-> None]]

\* C25: a fatal error of a session reaches the caller as exactly one failure
\* result: the blocking endpoint answers HTTP 500 without an answer, and the
\* streaming endpoint emits exactly one error event, as its last event.
C25_SingleFailureResult ==
  /\ BlockingFailureIs500
  /\ (fn.endpoint = "streaming" /\ fn.raised # "none") =>
        /\ Len(SelectSeq(fn.events, LAMBDA e : e = "error")) = 1
        /\ fn.events # << >> /\ fn.events[Len(fn.events)] = "error"

\* C26: a Generator call that fails during Expand has been attempted three
\* times before its candidate is dropped from the batch.
C26_DroppedAfterThreeAttempts ==
  fn.op \in {"gather", "gathered"} =>
     \A i \in 1..Len(fn.tasks) : fn.tasks[i] = "fail" => fn.attempts[i] = 3

\* the chain root -> child of test_backpropagate: two nodes without visits
\* and value, and the value propagated from the child
FreshChain ==
  /\ fn.op = "backpropagate"
  /\ Len(fn.before) = 2 /\ fn.node_id = 2
  /\ \A i \in 1..2 : fn.before[i].visits = 0 /\ fn.before[i].value = 0

Scored(node) ==
  << node.reflection_score, node.external_score, node.value, node.visits >>

StatedOrder ==
  { << "plan", "init_tree" >>, << "init_tree", "mcts_select" >>,
    << "mcts_select", "mcts_expand" >>,
    << "mcts_expand", "tool_node" >>, << "tool_node", "mcts_expand" >>,
    << "mcts_expand", "mcts_reflect" >>, << "mcts_reflect", "mcts_evaluate" >>,
    << "mcts_evaluate", "mcts_backprop" >>,
    << "mcts_backprop", "mcts_select" >>, << "mcts_backprop", "mcts_final" >>,
    << "mcts_final", "done" >> }

\* from the first Select on the tree has exactly one root
OneRoot ==
  pc \notin {"plan", "init_tree"} =>
     /\ root_id \in Ids(tree_state)
     /\ \A i \in Ids(tree_state) : (tree_state[i].parent_id = None) <=> (i = root_id)

\* the steps a session does take are in the stated order, up to the step
\* that raises
OrderUntilRaise ==
  /\ []OneRoot
  /\ [][ (<< pc, pc' >> \in StatedOrder) \/ pc' = "crashed" ]_vars

\* C29: in every session Plan and InitTree run exactly once (one root,
\* created before the first Select), every cycle runs Select, Expand, zero or
\* more (ToolCall, Expand) pairs, Reflect, Evaluate, Backprop in this order,
\* and Finalize runs exactly once, after the last Backprop: every step of a
\* session is followed as stated, and a session stops only after Finalize.
C29_StepOrder ==
  /\ []OneRoot
  /\ [][ (<< pc, pc' >> \in StatedOrder) ]_vars

\* C30: the depth the adaptive branching factor uses is the number of parent
\* hops from the node to the root (root = 0): a node without high-variance
\* children gets 2 only when it is more than 3 hops from the root, and 3 when
\* it is 3 hops or fewer from the root.
C30_TwoBeyondThreeHops ==
  (fn.op = "branching" /\ ~VarianceAbove03(fn.b)) =>
     fn.factor_b = IF HopsUp(chain_tree(fn.depth, fn.b), fn.depth, 1) > 3 THEN 2 ELSE 3

\* C31: the truncation applies only when more than 20 characters follow the
\* closing marker of the tool directive: a candidate whose closing marker is
\* followed by 20 characters or fewer is stored with its text unmodified.
C31_ShortTailKept ==
  (fn.op = "store" /\ search_match(fn.text).found) =>
     LET close == search_match(fn.text).close IN
     TextLen(SubSeq(fn.text, close + 1, Len(fn.text))) <= 20 => fn.content = fn.text

\* the terminal nodes of the evaluated batch that satisfy the terminal
\* early-exit condition on the node values of tree_nodes: terminal, with a
\* value above 0.7
QualifyingTerminals(tree_nodes) ==
  { evaluated_ids[j] : j \in { k \in 1..Len(evaluated_ids) :
        /\ tree_nodes[evaluated_ids[k]].is_terminal
        /\ tree_nodes[evaluated_ids[k]].value > Pct(70) } }

\* C32: when several terminal nodes of the evaluated batch satisfy the
\* early-exit condition, Backprop records as best_terminal_id the one of
\* them with the highest value (the values are those the step tests, the
\* node values it leaves).
C32_BestTerminalHighest ==
  [][ (pc = "mcts_backprop" /\ Cardinality(QualifyingTerminals(tree_state')) >= 2) =>
         ( /\ best_terminal_id' \in QualifyingTerminals(tree_state')
           /\ \A i \in QualifyingTerminals(tree_state') :
                 tree_state'[best_terminal_id'].value >= tree_state'[i].value ) ]_vars

\* C33: at the end of a cycle every node of the evaluated batch has a mean
\* value (cumulative value / visit count, the exploitation term of UCT) equal
\* to the score s that mcts_evaluate_node gave it: Evaluate stores (s, 1) and
\* Backprop adds (s, 1) to the node itself.
C33_MeanIsScore ==
  [][ (pc = "mcts_backprop") =>
         \A j \in 1..Len(evaluated_ids) :
            LET cid == evaluated_ids[j] IN
            /\ tree_state[cid].value = combined_score(tree_state[cid])
            /\ tree_state'[cid].visits > 0
            /\ q_value(tree_state'[cid]) = tree_state[cid].value ]_vars

C33_Witness ==
  /\ pc \in {"mcts_select", "mcts_final"}
  /\ hist.cycles = 1
  /\ \E j \in 1..Len(evaluated_ids) :
        LET node == tree_state[evaluated_ids[j]] IN
        /\ node.visits = 2
        /\ combined_score(node) > 0
        /\ node.value = 2 * combined_score(node)

\* C34: at the end of every completed cycle, the visit count of every
\* non-root node is at most the visit count of its parent.
C34_ParentVisitsDominate ==
  (pc \in {"mcts_select", "mcts_final"} /\ hist.cycles >= 1) =>
     \A i \in Ids(tree_state) :
        tree_state[i].parent_id # None =>
           tree_state[tree_state[i].parent_id].visits >= tree_state[i].visits

\* C35: at every Select step every node with visits > 0 has a parent whose
\* visit count is at least 1, so the exploration term of every visited child
\* is defined, and the descent from the root does not raise.
C35_SelectDefined ==
  pc = "mcts_select" =>
     /\ \A i \in Ids(tree_state) :
           (tree_state[i].parent_id # None /\ tree_state[i].visits > 0)
              => tree_state[tree_state[i].parent_id].visits >= 1
     /\ ~select_leaf(tree_state, root_id).raised

\* a Select step on a tree of two levels below the root with visited children
C35_Witness ==
  /\ pc = "mcts_select"
  /\ search_budget > 0
  /\ \E i \in Ids(tree_state) :
        /\ tree_state[i].visits > 0
        /\ tree_state[i].parent_id \notin {None, root_id}
  /\ select_leaf(tree_state, root_id).leaf # root_id

\* C36: whenever mcts_expand_node starts on a node of the tree (the leaf
\* that Select returned, or the requesting node after tool_node), that node
\* has no children, and the number of generation calls it issues, the
\* adaptive branching factor of the node, is 2 or 3 and never 5.
C36_ExpandTargetChildless ==
  (pc = "mcts_expand" /\ selected_node_id \in Ids(tree_state)) =>
     /\ tree_state[selected_node_id].children_ids = << >>
     /\ get_adaptive_branching_factor(tree_state, selected_node_id) \in {2, 3}

\* an Expand step after a retrieval detour, on a node three hops below the
\* root, which issues two calls
C36_Witness ==
  /\ pc = "mcts_expand"
  /\ selected_node_id \in Ids(tree_state)
  /\ hist.detours > 0
  /\ tree_state[selected_node_id].content.findings # << >>
  /\ get_depth(tree_state, selected_node_id) > 3
  /\ get_adaptive_branching_factor(tree_state, selected_node_id) = 2

\* C37: a session started with budget 0 completes no cycle and raises no
\* error on its way to mcts_finalize_node and Done.
C37_BudgetZeroFinalizes ==
  hist.budget0 = 0 => (pc # "crashed" /\ hist.cycles = 0)

\* C38: for a fixed reflection score and terminal flag the value that
\* mcts_evaluate_node assigns does not decrease when the verification score
\* increases; in particular a node verified at 0.0 is not valued above the
\* same node verified at any score > 0.
C38_MonotoneInExternal ==
  (fn.op = "evaluate" /\ fn.external_lo <= fn.external_hi) => fn.value_lo <= fn.value_hi

\* C39: after _cache_result has stored an entry the cache holds at most
\* CacheLimit entries, the entry just stored is present with its new
\* timestamp, every entry removed is at least as old as every entry kept,
\* entries are removed only from a cache that had grown beyond the limit,
\* and the entries kept are unchanged and in their order.
Stored(cache, key, now) ==
  LET entry == [key |-> key, text |-> "new", ts |-> now, by |-> 2] IN
  IF cache_index(cache, key) = 0 THEN Append(cache, entry)
  ELSE [cache EXCEPT ![cache_index(cache, key)] = entry]

Evicted(stored, after) ==
  { i \in 1..Len(stored) : cache_index(after, stored[i].key) = 0 }

C39_CapacityBounded ==
  fn.op = "cache_result" =>
    LET stored == Stored(fn.before, fn.key, fn.now)
        gone == Evicted(stored, fn.after)
    IN /\ Len(fn.after) <= CacheLimit
       /\ cache_index(fn.after, fn.key) # 0
       /\ fn.after[cache_index(fn.after, fn.key)].ts = fn.now
       /\ \A i \in gone : \A k \in (1..Len(stored)) \ gone : stored[i].ts <= stored[k].ts
       /\ (gone # {}) => Len(stored) > CacheLimit
       /\ fn.after = cache_without(stored, gone, 1)

\* a new key stored in a full cache whose timestamps repeat: twenty entries
\* go, among them only some of the entries that share the timestamp of the
\* newest entry removed
C39_Witness ==
  /\ fn.op = "cache_result"
  /\ Len(fn.before) = CacheLimit
  /\ cache_index(fn.before, fn.key) = 0
  /\ Len(fn.after) = CacheLimit + 1 - EvictCount
  /\ \E i \in 1..Len(fn.before) : \E k \in 1..Len(fn.after) :
        /\ cache_index(fn.after, fn.before[i].key) = 0
        /\ fn.after[k].ts = fn.before[i].ts

====
